---------------------------- MODULE Spec2Model ----------------------------
(***************************************************************************)
(* A model of .github/workflows/scripts/hash_scraper.py: six source        *)
(* adapters that extract malware hashes, the merge store save_hash_data,   *)
(* and the statistics aggregator generate_stats, run in the fixed order of *)
(* the script's __main__ block.                                            *)
(*                                                                         *)
(* Texts.  A Python string is a sequence of pieces, each piece a TLA+      *)
(* string.  Every character that the code inspects on its own (the 64      *)
(* characters of a hash, a space that str.replace looks for) is a piece of *)
(* its own; a literal of the code that holds none of them is one piece.    *)
(* Python's None is the value None below; a dict is a function whose       *)
(* domain is its key set, so that dict.get has its default.                *)
(***************************************************************************)
EXTENDS Integers, Sequences, FiniteSets, TLC

VARIABLES
    pc,          \* the statement of __main__ that runs next
    run,         \* the number of the current invocation of the script
    today,       \* the calendar day of the current invocation (TODAY)
    fs,          \* the files under hashes/: path -> content
    stats,       \* the stats dict of the last generate_stats call
    statsFile,   \* hashes/stats.json
    calls,       \* the adapter calls of this invocation, in order
    statsRuns,   \* generate_stats calls so far in this invocation
    itemsLeft,   \* payload items the sources may still deliver
    faultsLeft,  \* failures the environment may still inject
    history      \* per finished invocation: its day, its calls, its stats

vars == <<pc, run, today, fs, stats, statsFile, calls, statsRuns,
          itemsLeft, faultsLeft, history>>

---------------------------------------------------------------------------
(* Bounds of the model. *)

\* payload items (samples, rows, feed entries, tweets, cards) the sources
\* deliver in one behaviour
MaxItems == 2
\* transport, status, parse-of-body and write failures in one behaviour
MaxFaults == 1
\* invocations of the script in one behaviour
MaxRuns == 2

(* Constants of the program. *)

\* the {64} of SHA256_PATTERN and the len(sha256) != 64 of the CSV adapter
HashLen == 64
\* fields a CSV row needs: len(parts) >= 8
MinParts == 8
\* feed.entries[:10]
MaxEntries == 10
\* response.status_code == 200
StatusOK == 200

---------------------------------------------------------------------------
(* Python values and string methods. *)

None == <<"None">>

Truthy(v) == v # None /\ v # <<>>

\* dict.get(key, default)
Get(d, k, default) == IF k \in DOMAIN d THEN d[k] ELSE default

\* dict[key] = value
Put(d, k, v) == [x \in DOMAIN d \cup {k} |-> IF x = k THEN v ELSE d[x]]

EmptyDict == <<>>

\* str.replace(old, new) for a one-character old
Replace(s, old, new) == [i \in 1..Len(s) |-> IF s[i] = old THEN new ELSE s[i]]

\* the lower case of one piece of a text: the upper-case hexadecimal
\* digits, and the one word the code looks for in lower case
LowerChar(c) ==
    CASE c = "A" -> "a" [] c = "B" -> "b" [] c = "C" -> "c"
      [] c = "D" -> "d" [] c = "E" -> "e" [] c = "F" -> "f"
      [] c = "Malicious" -> "malicious" [] c = "MALICIOUS" -> "malicious"
      [] OTHER -> c

\* str.lower()
Lower(s) == [i \in 1..Len(s) |-> LowerChar(s[i])]

RECURSIVE Join(_, _)
\* sep.join(list)
Join(sep, list) ==
    IF list = <<>> THEN <<>>
    ELSE IF Len(list) = 1 THEN list[1]
    ELSE list[1] \o sep \o Join(sep, Tail(list))

HexChars == {"0", "1", "2", "3", "4", "5", "6", "7", "8", "9",
             "a", "b", "c", "d", "e", "f", "A", "B", "C", "D", "E", "F"}

\* a word of a text matches SHA256_PATTERN: 64 hexadecimal characters
\* between word boundaries
MatchesSha256(word) ==
    /\ Len(word) = HashLen
    /\ \A i \in 1..Len(word) : word[i] \in HexChars

\* SHA256_PATTERN.findall(text), the text given as its sequence of words
FindAll(text) == SelectSeq(text, MatchesSha256)

\* datetime.now().strftime with the given separator; the model's days are
\* the first days of one month
StrfTime(day, sep) == <<"2026", sep, "01", sep, "0", ToString(day)>>

\* TODAY = datetime.now().strftime('%Y_%m_%d')
TODAY(day) == StrfTime(day, "_")

\* datetime.now().isoformat(), to the precision of one invocation
IsoNow(day, r) == StrfTime(day, "-") \o <<"T", ToString(r)>>


RECURSIVE LStrip(_)
LStrip(s) == IF s # <<>> /\ Head(s) = " " THEN LStrip(Tail(s)) ELSE s

RECURSIVE RStrip(_)
RStrip(s) ==
    IF s # <<>> /\ s[Len(s)] = " " THEN RStrip(SubSeq(s, 1, Len(s) - 1)) ELSE s

\* str.strip()
Strip(s) == RStrip(LStrip(s))

---------------------------------------------------------------------------
(* The files under hashes/. *)

\* os.path.join('hashes', source_name, filename)
Path(source_name, filename) == [dir |-> source_name, name |-> filename]

\* a file json.load cannot parse (truncated, empty, not JSON)
Garbage == [kind |-> "garbage"]

\* a file holding a JSON array instead of an object
JsonArray == [kind |-> "array"]

\* a file holding the JSON object obj
JsonObject(obj) == [kind |-> "object", obj |-> obj]

\* the outcomes of open(filepath, 'w') and json.dump: written; open raises
\* and the file is as before; json.dump raises after open has truncated
WriteOutcomes == {"ok", "open_fails", "dump_fails"}

\* lines 68-73 of save_hash_data
WriteFile(files, path, data, outcome) ==
    CASE outcome = "ok" ->
            [p \in DOMAIN files \cup {path} |->
                IF p = path THEN JsonObject(data) ELSE files[p]]
      [] outcome = "dump_fails" ->
            [p \in DOMAIN files \cup {path} |->
                IF p = path THEN Garbage ELSE files[p]]
      [] OTHER -> files

\* the merge writing only the hashes that are new
MergeSignatures_delta(existing_signatures, new_signatures) ==
    [h \in DOMAIN new_signatures \ DOMAIN existing_signatures |->
        new_signatures[h]]

\* the merge with the new Record replacing the existing one
MergeSignatures_lastwins(existing_signatures, new_signatures) ==
    [h \in DOMAIN existing_signatures \cup DOMAIN new_signatures |->
        IF h \in DOMAIN new_signatures
        THEN new_signatures[h]
        ELSE existing_signatures[h]]

\* lines 59-61: insert the hashes that the existing mapping lacks
MergeSignatures(existing_signatures, new_signatures) ==
    [h \in DOMAIN existing_signatures \cup DOMAIN new_signatures |->
        IF h \in DOMAIN existing_signatures
        THEN existing_signatures[h]
        ELSE new_signatures[h]]

\* the merge treating a file it cannot use as an empty dataset
MergeExisting_asempty(content, data, now) ==
    LET existing_data == IF content.kind = "object" THEN content.obj
                         ELSE EmptyDict
        stamped == Put(Put(existing_data, "version",
                           Get(data, "version", <<"1.0.0">>)),
                       "last_updated", now)
    IN [raised |-> FALSE,
        data |-> Put(stamped, "sha256_signatures",
                     MergeSignatures(
                         Get(existing_data, "sha256_signatures", EmptyDict),
                         Get(data, "sha256_signatures", EmptyDict)))]

\* lines 49-66: the data to write when the file exists; raised is the
\* except branch, which leaves data as it was passed in
MergeExisting(content, data, now) ==
    IF content.kind # "object"
    THEN [raised |-> TRUE, data |-> data]
    ELSE LET existing_data == content.obj
             stamped == Put(Put(existing_data, "version",
                                Get(data, "version", <<"1.0.0">>)),
                            "last_updated", now)
             existing_signatures ==
                 Get(existing_data, "sha256_signatures", EmptyDict)
             merged == MergeSignatures(existing_signatures,
                           Get(data, "sha256_signatures", EmptyDict))
         IN [raised |-> FALSE,
             data |-> Put(stamped, "sha256_signatures", merged)]

\* save_hash_data without the merge: the new data replaces the file
DataToWrite_overwrite(files, path, data, now) == data

\* the data save_hash_data hands to json.dump (lines 47-66)
DataToWrite(files, path, data, now) ==
    IF path \in DOMAIN files
    THEN MergeExisting(files[path], data, now).data
    ELSE data

\* save_hash_data(source_name, filename, data): the files afterwards
save_hash_data(files, source_name, filename, data, now, outcome) ==
    LET path == Path(source_name, filename)
    IN WriteFile(files, path, DataToWrite(files, path, data, now), outcome)

\* what one call of save_hash_data did, kept for the properties
SaveRecord(files, source_name, filename, data, now, outcome) ==
    LET path == Path(source_name, filename)
    IN [path |-> path,
        existed |-> path \in DOMAIN files,
        prior |-> IF path \in DOMAIN files THEN files[path] ELSE Garbage,
        new |-> data,
        now |-> now,
        outcome |-> outcome]

---------------------------------------------------------------------------
(* The record normalizer. *)

\* generate_hash_structure; classification.replace raises on None
generate_hash_structure(hash_value, classification, detection_rate, additional_info, file_type, day) ==
    [classification |-> classification,
     detection_rate |-> detection_rate,
     first_seen |-> StrfTime(day, "-"),
     neartha_name |-> Replace(classification, " ", "."),
     additional_info |->
         IF Truthy(additional_info) THEN additional_info ELSE <<>>,
     file_type |-> IF Truthy(file_type) THEN file_type ELSE <<"Unknown">>]

\* the dataset each adapter starts from
NewData(label, source, day, r) ==
    [version |-> <<"1.0.0">>,
     last_updated |-> IsoNow(day, r),
     description |->
         <<label, " malware hashes collected on ">> \o StrfTime(day, "-"),
     source |-> <<source>>,
     sha256_signatures |-> EmptyDict]


---------------------------------------------------------------------------
(* What the sources may deliver. *)

HA == [i \in 1..HashLen |-> "a"]
HAup == [i \in 1..HashLen |-> "A"]
HB == [i \in 1..HashLen |-> "b"]
\* hexadecimal, but not 64 characters
ShortHash == <<"a", "b", "c">>
\* a JSON array where a string is expected: a Python list, unhashable
JsonList == <<"[]">>

\* the sequences over S of length at most n
RECURSIVE SeqsUpTo(_, _)
SeqsUpTo(S, n) ==
    IF n = 0 THEN {<<>>}
    ELSE LET shorter == SeqsUpTo(S, n - 1)
         IN shorter \cup {Append(q, x) : q \in {t \in shorter : Len(t) = n - 1}, x \in S}

\* the body of a response: whether response.json() parses it, the
\* query_status of a MalwareBazaar answer, and its items in order (the
\* samples or items of a JSON answer, the lines of response.text, the
\* tweets or cards of a page)
Body(json, query_status, data) ==
    [json |-> json, query_status |-> query_status, data |-> data]

NoBody == Body(FALSE, "", <<>>)

\* requests.get / requests.post: the call raises, or returns a response
\* whose status is not 200, or returns 200 with one of the given bodies
Responses(bodies, faults) ==
    {[kind |-> "response", status_code |-> StatusOK, body |-> b] : b \in bodies}
    \cup (IF faults > 0
          THEN {[kind |-> "exception", status_code |-> 0, body |-> NoBody],
                [kind |-> "response", status_code |-> 500, body |-> NoBody]}
          ELSE {})

\* a response that used up one of the failures left
IsFault(resp) == resp.kind = "exception" \/ resp.status_code # StatusOK

\* the write outcomes still possible
Writes(faults) == IF faults > 0 THEN WriteOutcomes ELSE {"ok"}

WriteFaults(w) == IF w = "ok" THEN 0 ELSE 1

\* samples of the MalwareBazaar get_recent answer
MBSamples ==
    { [sha256_hash |-> HA, signature |-> <<"Trojan.Test">>,
       tags |-> << <<"t1">>, <<"t2">> >>],
      [sha256_hash |-> HAup, signature |-> <<"Win32", " ", "Agent">>,
       tags |-> None, intelligence |-> [avdetection |-> <<"57">>],
       file_type |-> <<"exe">>],
      [signature |-> <<"NoHash">>],
      [sha256_hash |-> HB, signature |-> None] }

\* lines of the URLhaus payload feed, each given as line.split(',')
UHLines ==
    { << <<"#", " ", "header">> >>,
      << <<>> >>,
      << <<"2026-01-01">>, <<"u">>, <<"t">>, <<"m">>, <<" ">> \o HAup,
         <<"exe">>, <<"Heodo">>, <<"v">> >>,
      << <<"2026-01-02">>, <<"u">>, <<"t">>, <<"m">>, HB,
         <<"dll">>, <<>>, <<"v">> >>,
      << <<"2026-01-03">>, <<"u">>, <<"t">>, <<"m">>, ShortHash,
         <<"exe">>, <<"Heodo">>, <<"v">> >>,
      << <<"2026-01-04">>, <<"u">>, <<"t">>, <<"m">>, HB,
         <<"exe">>, <<"Heodo">> >> }


\* the three feeds of fetch_popular_malware_blogs
Blogs == << <<"Malware Traffic Analysis">>, <<"BleepingComputer">>,
            <<"Krebs on Security">> >>

\* feed entries: the text of content / summary is given as its words
BlogEntries ==
    { [content |-> << <<"ioc">>, HAup >>, summary |-> << <<"s">> >>,
       title |-> <<"Report">>],
      [title |-> <<"Empty">>],
      [summary |-> << HB, <<"seen">> >>] }

\* tweets of the VX-Underground page, each given as the words of its text
VXTweets == { << <<"new">>, HB >>, << <<"hello">>, ShortHash >> }

\* items of the Malpedia answer
MalpediaItems ==
    { [isdict |-> TRUE,
       obj |-> [sha256 |-> HB, family |-> <<"win.emotet">>,
                fileType |-> <<"pe">>]],
      [isdict |-> FALSE, obj |-> EmptyDict],
      [isdict |-> TRUE, obj |-> [family |-> <<"win.nohash">>]],
      [isdict |-> TRUE, obj |-> [sha256 |-> JsonList]] }

\* task cards of the ANY.RUN page
AnyRunCards ==
    { [sha256_elem |-> <<" ">> \o HA \o <<" ">>,
       verdict |-> <<"Malicious", " ", "activity">>,
       name |-> <<" ", "sample.exe">>],
      [text |-> << <<"task">>, HB, HA >>],
      [text |-> << <<"nothing">> >>] }

---------------------------------------------------------------------------
(* The adapters' extraction loops.  Each returns the Record mapping built  *)
(* so far and whether an exception left the loop.                          *)

RECURSIVE MalwareBazaarLoop(_, _, _)
\* lines 117-131
MalwareBazaarLoop(samples, sigs, day) ==
    IF samples = <<>> THEN [sigs |-> sigs, raised |-> FALSE]
    ELSE LET sample == Head(samples)
             sha256 == Get(sample, "sha256_hash", None)
             tags == Get(sample, "tags", <<>>)
             tag_str == IF Truthy(tags) THEN Join(<<", ">>, tags)
                        ELSE <<"Unclassified">>
             signature == Get(sample, "signature", <<"Malware.Generic">>)
             avdetection == Get(Get(sample, "intelligence", EmptyDict),
                                "avdetection", <<"?">>)
         IN IF ~Truthy(sha256)
            THEN MalwareBazaarLoop(Tail(samples), sigs, day)
            ELSE IF signature = None
            THEN [sigs |-> sigs, raised |-> TRUE]
            ELSE MalwareBazaarLoop(Tail(samples),
                     Put(sigs, sha256,
                         generate_hash_structure(sha256, signature,
                             avdetection \o <<"/100">>,
                             <<"Tags: ">> \o tag_str,
                             Get(sample, "file_type", None), day)),
                     day)

\* line.startswith('#') or not line.strip(), the line given by its parts
SkippedLine(parts) ==
    \/ (parts[1] # <<>> /\ parts[1][1] = "#")
    \/ (Len(parts) = 1 /\ Strip(parts[1]) = <<>>)

\* lines 180-187: the Record of one CSV row
UrlhausRecord(parts) ==
    LET file_type == Strip(parts[6])
        signature == Strip(parts[7])
        first_seen == Strip(parts[1])
    IN [classification |->
            IF signature # <<>> THEN signature ELSE <<"Malware.URLhaus">>,
        detection_rate |-> <<"Unknown">>,
        first_seen |-> first_seen,
        neartha_name |->
            IF signature # <<>> THEN <<"Malware.">> \o signature
            ELSE <<"Malware.URLhaus.Generic">>,
        additional_info |->
            <<"Downloaded from malicious URL. File type: ">> \o file_type,
        file_type |-> file_type]

RECURSIVE UrlhausLoop(_, _)
\* lines 166-187
UrlhausLoop(lines, sigs) ==
    IF lines = <<>> THEN [sigs |-> sigs, raised |-> FALSE]
    ELSE LET parts == Head(lines)
             sha256 == Lower(Strip(parts[5]))
         IN IF SkippedLine(parts) \/ Len(parts) < MinParts
            THEN UrlhausLoop(Tail(lines), sigs)
            ELSE IF sha256 = <<>> \/ Len(sha256) # HashLen
            THEN UrlhausLoop(Tail(lines), sigs)
            ELSE UrlhausLoop(Tail(lines),
                             Put(sigs, sha256, UrlhausRecord(parts)))

RECURSIVE HashesLoop(_, _, _, _, _)
\* for sha256 in hashes: one Record per hash, all of them alike
HashesLoop(hashes, sigs, classification, additional_info, day) ==
    IF hashes = <<>> THEN sigs
    ELSE HashesLoop(Tail(hashes),
             Put(sigs, Head(hashes),
                 generate_hash_structure(Head(hashes), classification,
                     <<"Unknown">>, additional_info, <<"Unknown">>, day)),
             classification, additional_info, day)

RECURSIVE BlogEntriesLoop(_, _, _, _)
\* lines 401-422: the entries of one feed
BlogEntriesLoop(entries, sigs, name, day) ==
    IF entries = <<>> THEN [sigs |-> sigs, raised |-> FALSE]
    ELSE LET entry == Head(entries)
             content == IF "content" \in DOMAIN entry THEN entry.content
                        ELSE Get(entry, "summary", <<>>)
             hashes == FindAll(content)
         IN IF ~("content" \in DOMAIN entry \/ "summary" \in DOMAIN entry)
               \/ hashes = <<>>
            THEN BlogEntriesLoop(Tail(entries), sigs, name, day)
            ELSE IF "title" \notin DOMAIN entry
            THEN [sigs |-> sigs, raised |-> TRUE]
            ELSE BlogEntriesLoop(Tail(entries),
                     HashesLoop(hashes, sigs, <<"Malware.SecurityBlog">>,
                         <<"Source: ">> \o name \o <<" - ">> \o entry.title,
                         day),
                     name, day)

RECURSIVE BlogsLoop(_, _, _, _)
\* lines 395-425: every feed in turn; an exception ends one feed only
BlogsLoop(feeds, i, acc, day) ==
    IF i > Len(Blogs) THEN acc
    ELSE LET entries == SubSeq(feeds[i], 1,
                            IF Len(feeds[i]) < MaxEntries
                            THEN Len(feeds[i]) ELSE MaxEntries)
             got == BlogEntriesLoop(entries, acc.sigs, Blogs[i], day)
         IN BlogsLoop(feeds, i + 1,
                [sigs |-> got.sigs, raised |-> acc.raised \/ got.raised], day)

RECURSIVE VxLoop(_, _, _)
\* lines 224-237
VxLoop(tweets, sigs, day) ==
    IF tweets = <<>> THEN [sigs |-> sigs, raised |-> FALSE]
    ELSE VxLoop(Tail(tweets),
             HashesLoop(FindAll(Head(tweets)), sigs,
                 <<"Malware.VXUnderground">>,
                 <<"Found in VX-Underground Twitter feed">>, day),
             day)

RECURSIVE MalpediaLoop(_, _, _)
\* lines 273-286
MalpediaLoop(items, sigs, day) ==
    IF items = <<>> THEN [sigs |-> sigs, raised |-> FALSE]
    ELSE LET item == Head(items)
             family == Get(item.obj, "family", <<"Unknown">>)
         IN IF ~(item.isdict /\ "sha256" \in DOMAIN item.obj)
            THEN MalpediaLoop(Tail(items), sigs, day)
            ELSE IF item.obj.sha256 = JsonList
            THEN [sigs |-> sigs, raised |-> TRUE]
            ELSE MalpediaLoop(Tail(items),
                     Put(sigs, item.obj.sha256,
                         generate_hash_structure(item.obj.sha256,
                             <<"Malware.">> \o family, <<"Unknown">>,
                             <<"Malpedia family: ">> \o family,
                             Get(item.obj, "fileType", <<"Unknown">>), day)),
                     day)

\* "malicious" in verdict_elem.get_text().lower()
IsMalicious(text) == \E i \in 1..Len(text) : Lower(text)[i] = "malicious"

RECURSIVE AnyRunLoop(_, _, _)
\* lines 325-352
AnyRunLoop(cards, sigs, day) ==
    IF cards = <<>> THEN [sigs |-> sigs, raised |-> FALSE]
    ELSE LET card == Head(cards)
             hashes == FindAll(Get(card, "text", <<>>))
             sha256 == IF "sha256_elem" \in DOMAIN card
                       THEN Strip(card.sha256_elem)
                       ELSE hashes[1]
             verdict == IF "verdict" \in DOMAIN card /\ IsMalicious(card.verdict)
                        THEN <<"Malicious">> ELSE <<"Unknown">>
             name == IF "name" \in DOMAIN card THEN Strip(card.name)
                     ELSE <<"Unknown">>
         IN IF "sha256_elem" \notin DOMAIN card /\ hashes = <<>>
            THEN AnyRunLoop(Tail(cards), sigs, day)
            ELSE AnyRunLoop(Tail(cards),
                     Put(sigs, sha256,
                         generate_hash_structure(sha256,
                             <<"Malware.">> \o name, <<"Unknown">>,
                             <<"ANY.RUN verdict: ">> \o verdict,
                             <<"Unknown">>, day)),
                     day)


---------------------------------------------------------------------------
(* The adapters.  Each returns the files afterwards and a record of the    *)
(* call: the Record mapping extracted, whether an exception was raised     *)
(* inside it, and its calls of save_hash_data.                             *)

\* the adapter's end without the write to daily: only its own partition
\* is written
SaveTwice_sourceonly(files, source_name, filename, data, day, now, w1, w2) ==
    LET first == save_hash_data(files, source_name, filename, data, now, w1)
        daily == <<>> \o TODAY(day) \o <<".json">>
    IN [fs |-> first,
        saves |-> << SaveRecord(files, source_name, filename, data, now, w1),
                     SaveRecord(first, "daily", daily, data, now, w2) >>]

\* the two saves that end an adapter: its own partition, then daily
SaveTwice(files, source_name, filename, data, day, now, w1, w2) ==
    LET first == save_hash_data(files, source_name, filename, data, now, w1)
        daily == <<>> \o TODAY(day) \o <<".json">>
    IN [fs |-> save_hash_data(first, "daily", daily, data, now, w2),
        saves |-> << SaveRecord(files, source_name, filename, data, now, w1),
                     SaveRecord(first, "daily", daily, data, now, w2) >>]

\* an adapter call that saved nothing
NoSave(adapter, files, sigs, raised) ==
    [adapter |-> adapter, fs |-> files, extracted |-> sigs,
     raised |-> raised, saves |-> <<>>]

\* an adapter call that reached its two saves
Saved(adapter, files, source_name, filename, data, day, now, w1, w2) ==
    LET both == SaveTwice(files, source_name, filename, data, day, now, w1, w2)
    IN [adapter |-> adapter, fs |-> both.fs,
        extracted |-> data.sha256_signatures,
        raised |-> FALSE, saves |-> both.saves]

\* the try body and the except clause shared by the five HTTP adapters:
\* got is the result of the adapter's loop over a 200 response
HttpAdapter(adapter, files, resp, got, data, source_name, filename, day, now, w1, w2) ==
    IF resp.kind = "exception" THEN NoSave(adapter, files, EmptyDict, TRUE)
    ELSE IF resp.status_code # StatusOK
    THEN NoSave(adapter, files, EmptyDict, FALSE)
    ELSE IF got.raised THEN NoSave(adapter, files, got.sigs, TRUE)
    ELSE Saved(adapter, files, source_name, filename,
               Put(data, "sha256_signatures", got.sigs), day, now, w1, w2)

\* response.json() raises on a body that is not JSON
JsonLoop(body, got) ==
    IF body.json THEN got ELSE [sigs |-> EmptyDict, raised |-> TRUE]

fetch_malwarebazaar_samples(files, resp, day, r, w1, w2) ==
    HttpAdapter("malwarebazaar", files, resp,
        JsonLoop(resp.body,
            IF resp.body.query_status = "ok"
            THEN MalwareBazaarLoop(resp.body.data, EmptyDict, day)
            ELSE [sigs |-> EmptyDict, raised |-> FALSE]),
        NewData("MalwareBazaar", "MalwareBazaar", day, r),
        "malwarebazaar", TODAY(day) \o <<".json">>, day, IsoNow(day, r), w1, w2)

fetch_urlhaus_samples(files, resp, day, r, w1, w2) ==
    HttpAdapter("urlhaus", files, resp, UrlhausLoop(resp.body.data, EmptyDict),
        NewData("URLhaus", "URLhaus", day, r),
        "urlhaus", TODAY(day) \o <<".json">>, day, IsoNow(day, r), w1, w2)

fetch_popular_malware_blogs(files, feeds, day, r, w1, w2) ==
    LET got == BlogsLoop(feeds, 1, [sigs |-> EmptyDict, raised |-> FALSE], day)
        data == Put(NewData("Security blog", "Security Blogs", day, r),
                    "sha256_signatures", got.sigs)
    IN IF got.sigs # EmptyDict
       THEN [Saved("blogs", files, "virustotal",
                   <<"blogs_">> \o TODAY(day) \o <<".json">>,
                   data, day, IsoNow(day, r), w1, w2)
             EXCEPT !.raised = got.raised]
       ELSE NoSave("blogs", files, EmptyDict, got.raised)

scrape_vx_underground(files, resp, day, r, w1, w2) ==
    HttpAdapter("vxunderground", files, resp, VxLoop(resp.body.data, EmptyDict, day),
        NewData("VX-Underground", "VX-Underground", day, r),
        "virustotal", <<"vxunderground_">> \o TODAY(day) \o <<".json">>,
        day, IsoNow(day, r), w1, w2)

scrape_malpedia(files, resp, day, r, w1, w2) ==
    HttpAdapter("malpedia", files, resp,
        JsonLoop(resp.body, MalpediaLoop(resp.body.data, EmptyDict, day)),
        NewData("Malpedia", "Malpedia", day, r),
        "virustotal", <<"malpedia_">> \o TODAY(day) \o <<".json">>,
        day, IsoNow(day, r), w1, w2)

scrape_any_run(files, resp, day, r, w1, w2) ==
    HttpAdapter("anyrun", files, resp, AnyRunLoop(resp.body.data, EmptyDict, day),
        NewData("ANY.RUN", "ANY.RUN", day, r),
        "virustotal", <<"anyrun_">> \o TODAY(day) \o <<".json">>,
        day, IsoNow(day, r), w1, w2)

\* an except clause that raises again
Propagates_reraise(raised) == raised

\* except Exception as e: logger.error(...): the exception stops here
Propagates(raised) == FALSE

---------------------------------------------------------------------------
(* The statistics aggregator. *)

\* hash_dirs
HashDirs == <<"virustotal", "malwarebazaar", "urlhaus", "daily">>

\* os.listdir(dir_path), the names that end with .json
JsonFiles(files, dir_name) ==
    {p \in DOMAIN files : p.dir = dir_name /\ p.name[Len(p.name)] = ".json"}

\* json.load and data.get succeed: the try body of lines 461-470 runs
Loads(content) == content.kind = "object"

\* data.get('sha256_signatures', {}) of a file that loads
Signatures(content) == Get(content.obj, "sha256_signatures", EmptyDict)

RECURSIVE CountHashes(_, _)
\* stats['sources'][dir_name]["hashes"] over the files of one directory
CountHashes(files, paths) ==
    IF paths = {} THEN 0
    ELSE LET p == CHOOSE q \in paths : TRUE
         IN (IF Loads(files[p])
             THEN Cardinality(DOMAIN Signatures(files[p])) ELSE 0)
            + CountHashes(files, paths \ {p})

\* lines 452-473 for one directory
DirStats(files, dir_name) ==
    [files |-> Cardinality(JsonFiles(files, dir_name)),
     hashes |-> CountHashes(files, JsonFiles(files, dir_name))]

\* total_hashes kept as a list: one element per file and key
TotalHashes_list(files) ==
    UNION {{<<p, h>> : h \in DOMAIN Signatures(files[p])} :
              p \in {q \in DOMAIN files :
                        /\ \E i \in 1..Len(HashDirs) :
                              q \in JsonFiles(files, HashDirs[i])
                        /\ Loads(files[q])}}

\* total_hashes after the loop over hash_dirs
TotalHashes(files) ==
    UNION {DOMAIN Signatures(files[p]) :
              p \in {q \in DOMAIN files :
                        /\ \E i \in 1..Len(HashDirs) :
                              q \in JsonFiles(files, HashDirs[i])
                        /\ Loads(files[q])}}

\* the stats dict of generate_stats (lines 436-475)
generate_stats(files, day, r) ==
    [last_update |-> IsoNow(day, r),
     sources |-> [d \in {HashDirs[i] : i \in 1..Len(HashDirs)} |->
                     DirStats(files, d)],
     total_unique_hashes |-> Cardinality(TotalHashes(files))]


---------------------------------------------------------------------------
(* The bodies of the 200 responses, within the items and failures left. *)

MBBodies(n, faults) ==
    {Body(TRUE, "ok", q) : q \in SeqsUpTo(MBSamples, n)}
    \cup {Body(TRUE, "no_results", <<>>)}
    \cup (IF faults > 0 THEN {NoBody} ELSE {})

\* a JSON answer without query_status
JsonBodies(items, n, faults) ==
    {Body(TRUE, "", q) : q \in SeqsUpTo(items, n)}
    \cup (IF faults > 0 THEN {NoBody} ELSE {})

\* a text or HTML answer
TextBodies(items, n) == {Body(FALSE, "", q) : q \in SeqsUpTo(items, n)}

\* the entries of the three feeds, drawn as one sequence in feed order
BlogFeeds(n) ==
    LET tagged == SeqsUpTo((1..Len(Blogs)) \X BlogEntries, n)
        ordered == {q \in tagged :
                       \A i \in 1..Len(q) - 1 : q[i][1] <= q[i + 1][1]}
        Entry(pair) == pair[2]
        Feed(q, b) ==
            LET mine == SelectSeq(q, LAMBDA pair : pair[1] = b)
            IN [i \in 1..Len(mine) |-> Entry(mine[i])]
    IN {[b \in 1..Len(Blogs) |-> Feed(q, b)] : q \in ordered}

FeedItems(feeds) == Len(feeds[1]) + Len(feeds[2]) + Len(feeds[3])

\* the items and failures one response uses up
RespItems(resp) == IF IsFault(resp) THEN 0 ELSE Len(resp.body.data)

\* parses: the adapter calls response.json()
RespFaults(resp, parses) ==
    IF IsFault(resp) \/ (parses /\ ~resp.body.json) THEN 1 ELSE 0

---------------------------------------------------------------------------
(* The script. *)

\* the adapters in the order of __main__, then the aggregator
Order == <<"malwarebazaar", "urlhaus", "blogs", "vxunderground",
           "malpedia", "anyrun">>

\* the statement after the i-th adapter
After(i) == IF i < Len(Order) THEN Order[i + 1] ELSE "stats"

\* a file an earlier process or a person left in hashes/daily for day 1;
\* such a file counts as one of the failures of the behaviour
OldDaily == Path("daily", TODAY(1) \o <<".json">>)

InitialFiles ==
    { <<>>,
      OldDaily :> JsonArray,
      OldDaily :> JsonObject([source |-> <<"manual">>]) }

NoStats == [last_update |-> <<>>, sources |-> <<>>, total_unique_hashes |-> 0]

\* the script starts: files are the files found, faults the failures that
\* the environment may inject
Start(files, faults) ==
    /\ pc = Order[1]
    /\ run = 1
    /\ today = 1
    /\ fs = files
    /\ stats = NoStats
    /\ statsFile = Garbage
    /\ calls = <<>>
    /\ statsRuns = 0
    /\ itemsLeft = MaxItems
    /\ faultsLeft = faults
    /\ history = <<>>

Init ==
    \E files \in InitialFiles :
        Start(files, MaxFaults - (IF files = <<>> THEN 0 ELSE 1))

\* one adapter has run: call is its result, w1 and w2 the write outcomes
\* drawn for its saves
Step(i, call, items, faults, w1, w2) ==
    /\ faults + WriteFaults(w1) + WriteFaults(w2) <= faultsLeft
    /\ call.saves = <<>> => (w1 = "ok" /\ w2 = "ok")
    /\ fs' = call.fs
    /\ calls' = Append(calls, [adapter |-> call.adapter,
                               extracted |-> call.extracted,
                               raised |-> call.raised,
                               saves |-> call.saves])
    /\ itemsLeft' = itemsLeft - items
    /\ faultsLeft' = faultsLeft - (faults + WriteFaults(w1) + WriteFaults(w2))
    /\ pc' = IF Propagates(call.raised) THEN "crashed" ELSE After(i)
    /\ UNCHANGED <<run, today, stats, statsFile, statsRuns, history>>

FetchMalwareBazaar ==
    /\ pc = Order[1]
    /\ \E resp \in Responses(MBBodies(itemsLeft, faultsLeft), faultsLeft) :
       \E w1 \in Writes(faultsLeft), w2 \in Writes(faultsLeft) :
          Step(1, fetch_malwarebazaar_samples(fs, resp, today, run, w1, w2),
               RespItems(resp), RespFaults(resp, TRUE), w1, w2)

FetchUrlhaus ==
    /\ pc = Order[2]
    /\ \E resp \in Responses(TextBodies(UHLines, itemsLeft), faultsLeft) :
       \E w1 \in Writes(faultsLeft), w2 \in Writes(faultsLeft) :
          Step(2, fetch_urlhaus_samples(fs, resp, today, run, w1, w2),
               RespItems(resp), RespFaults(resp, FALSE), w1, w2)

FetchBlogs ==
    /\ pc = Order[3]
    /\ \E feeds \in BlogFeeds(itemsLeft) :
       \E w1 \in Writes(faultsLeft), w2 \in Writes(faultsLeft) :
          Step(3, fetch_popular_malware_blogs(fs, feeds, today, run, w1, w2),
               FeedItems(feeds), 0, w1, w2)

ScrapeVxUnderground ==
    /\ pc = Order[4]
    /\ \E resp \in Responses(TextBodies(VXTweets, itemsLeft), faultsLeft) :
       \E w1 \in Writes(faultsLeft), w2 \in Writes(faultsLeft) :
          Step(4, scrape_vx_underground(fs, resp, today, run, w1, w2),
               RespItems(resp), RespFaults(resp, FALSE), w1, w2)

ScrapeMalpedia ==
    /\ pc = Order[5]
    /\ \E resp \in Responses(JsonBodies(MalpediaItems, itemsLeft, faultsLeft), faultsLeft) :
       \E w1 \in Writes(faultsLeft), w2 \in Writes(faultsLeft) :
          Step(5, scrape_malpedia(fs, resp, today, run, w1, w2),
               RespItems(resp), RespFaults(resp, TRUE), w1, w2)

ScrapeAnyRun ==
    /\ pc = Order[6]
    /\ \E resp \in Responses(TextBodies(AnyRunCards, itemsLeft), faultsLeft) :
       \E w1 \in Writes(faultsLeft), w2 \in Writes(faultsLeft) :
          Step(6, scrape_any_run(fs, resp, today, run, w1, w2),
               RespItems(resp), RespFaults(resp, FALSE), w1, w2)

\* generate_stats(): the stats dict, then stats.json written or not
GenerateStats ==
    /\ pc = "stats"
    /\ \E w \in Writes(faultsLeft) :
          /\ stats' = generate_stats(fs, today, run)
          /\ statsFile' = CASE w = "ok" -> JsonObject(generate_stats(fs, today, run))
                            [] w = "dump_fails" -> Garbage
                            [] OTHER -> statsFile
          /\ faultsLeft' = faultsLeft - WriteFaults(w)
    /\ statsRuns' = statsRuns + 1
    /\ pc' = "done"
    /\ UNCHANGED <<run, today, fs, calls, itemsLeft, history>>

\* the scheduler invokes the script again, the same day or the next; the
\* sources have up to MaxItems items for each invocation
StartRun ==
    /\ pc \in {"done", "crashed"}
    /\ run < MaxRuns
    /\ run' = run + 1
    /\ \E d \in {today, today + 1} : today' = d
    /\ history' = Append(history, [day |-> today, calls |-> calls,
                                   stats |-> stats, statsRuns |-> statsRuns])
    /\ calls' = <<>>
    /\ statsRuns' = 0
    /\ pc' = Order[1]
    /\ itemsLeft' = MaxItems
    /\ UNCHANGED <<fs, stats, statsFile, faultsLeft>>

\* the statements of __main__
Next ==
    \/ FetchMalwareBazaar
    \/ FetchUrlhaus
    \/ FetchBlogs
    \/ ScrapeVxUnderground
    \/ ScrapeMalpedia
    \/ ScrapeAnyRun
    \/ GenerateStats

\* One invocation of the script.  The script is one sequential process:
\* while a statement is left to run, it runs.
Spec == Init /\ [][Next]_vars /\ WF_vars(Next)

\* Invocations one after the other, on the files the one before left, in an
\* environment that injects no failure.
RunsInit == Start(<<>>, 0)

RunsNext == Next \/ StartRun

RunsSpec == RunsInit /\ [][RunsNext]_vars


---------------------------------------------------------------------------
(* The calls of save_hash_data made so far, and what each persisted. *)

\* the calls of save_hash_data of a sequence of adapter calls
CallSaves(cs) ==
    UNION {{cs[i].saves[j] : j \in 1..Len(cs[i].saves)} : i \in 1..Len(cs)}

\* the file a call found, as a one-file tree
Before(sv) == IF sv.existed THEN sv.path :> sv.prior ELSE <<>>

\* the tree after the call, had its write succeeded
Once(sv) ==
    save_hash_data(Before(sv), sv.path.dir, sv.path.name, sv.new, sv.now, "ok")

\* the tree after the same call made a second time, at a later moment
Twice(sv) ==
    save_hash_data(Once(sv), sv.path.dir, sv.path.name, sv.new,
                   sv.now \o <<"+1">>, "ok")

\* a key of a dict with its value, or its absence
Field(d, k) == IF k \in DOMAIN d THEN <<"present", d[k]>> ELSE <<"absent">>

\* two datasets agree in everything but last_updated
SameButStamp(d1, d2) ==
    \A k \in {"sha256_signatures", "version", "description", "source"} :
        Field(d1, k) = Field(d2, k)

\* the prior file of a call held a dataset
PriorLoads(sv) == sv.existed /\ sv.prior.kind = "object"

PriorSignatures(sv) ==
    IF PriorLoads(sv) THEN Get(sv.prior.obj, "sha256_signatures", EmptyDict)
    ELSE EmptyDict

\* the saves of the adapter call that ran last; every call of
\* save_hash_data is one of these in the state its adapter leaves
LastSaves == IF calls = <<>> THEN {} ELSE CallSaves(<<calls[Len(calls)]>>)

\* C1: merge is idempotent: for every call save_hash_data(D, N) the program
\* makes, making the call a second time leaves the same dataset as making
\* it once, in its Record mapping, version, description and source.
C1_MergeIdempotent ==
    \A sv \in LastSaves :
        /\ Once(sv)[sv.path].kind = "object"
        /\ Twice(sv)[sv.path].kind = "object"
        /\ SameButStamp(Once(sv)[sv.path].obj, Twice(sv)[sv.path].obj)

\* a call that merged new hashes into a prior dataset that held others
C1_Witness ==
    \E sv \in LastSaves :
        /\ PriorLoads(sv)
        /\ DOMAIN PriorSignatures(sv) \ DOMAIN sv.new.sha256_signatures # {}
        /\ DOMAIN sv.new.sha256_signatures \ DOMAIN PriorSignatures(sv) # {}
        /\ sv.outcome = "ok"

\* C2: merge is first-write-wins: every hash of the prior dataset keeps its
\* Record, whatever Record the new dataset has for it; only absent hashes
\* are inserted; and that is what the file holds when the write succeeds.
C2_MergeNonDestructive ==
    /\ \A sv \in LastSaves :
          LET after == Once(sv)[sv.path].obj.sha256_signatures
              prior == PriorSignatures(sv)
              new == sv.new.sha256_signatures
          IN PriorLoads(sv) =>
                /\ DOMAIN after = DOMAIN prior \cup DOMAIN new
                /\ \A h \in DOMAIN prior : after[h] = prior[h]
                /\ \A h \in DOMAIN new \ DOMAIN prior : after[h] = new[h]
    /\ \A sv \in LastSaves :
          sv.outcome = "ok" => fs[sv.path] = Once(sv)[sv.path]

\* a successful call whose new dataset had another Record for a prior hash
C2_Witness ==
    \E sv \in LastSaves :
        /\ sv.outcome = "ok"
        /\ \E h \in DOMAIN PriorSignatures(sv) \cap DOMAIN sv.new.sha256_signatures :
              PriorSignatures(sv)[h] # sv.new.sha256_signatures[h]

\* C3: when the prior file is missing, unreadable, unparsable or makes the
\* merge fail, the dataset save_hash_data persists is exactly the new one,
\* and no exception leaves the adapter that called it.
C3_BadPriorYieldsNew ==
    /\ \A sv \in LastSaves :
          ~PriorLoads(sv) => Once(sv)[sv.path] = JsonObject(sv.new)
    /\ \A sv \in LastSaves :
          (~PriorLoads(sv) /\ sv.outcome = "ok") => fs[sv.path] = JsonObject(sv.new)
    /\ pc # "crashed"

\* a successful call that found a file it could not merge with
C3_Witness ==
    \E sv \in LastSaves :
        /\ sv.existed
        /\ sv.prior.kind \in {"garbage", "array"}
        /\ sv.new.sha256_signatures # EmptyDict
        /\ sv.outcome = "ok"
        /\ fs[sv.path] = JsonObject(sv.new)


---------------------------------------------------------------------------
(* The aggregator's snapshot against the files it read. *)

\* the dataset files of the four partitions that hold a dataset
ReadableFiles == {p \in DOMAIN fs : fs[p].kind = "object"}

KeysOf(p) == DOMAIN Get(fs[p].obj, "sha256_signatures", EmptyDict)

\* generate_stats has run and nothing has written since
StatsFresh == pc = "done" /\ statsRuns = 1

\* C4: total_unique_hashes is the size of the union of the hash keys of all
\* readable files, so a hash held in two partitions counts once, while a
\* partition's hashes counter is the sum of the sizes of its readable
\* files' Record mappings and counts that hash in each partition.
C4_UniqueCount ==
    StatsFresh =>
        /\ stats.total_unique_hashes =
              Cardinality(UNION {KeysOf(p) : p \in ReadableFiles})
        /\ \A d \in DOMAIN stats.sources :
              stats.sources[d].hashes =
                  Cardinality(UNION {{<<p, h>> : h \in KeysOf(p)} :
                                 p \in {q \in ReadableFiles : q.dir = d}})

\* a snapshot taken when one hash was held in two partitions
C4_Witness ==
    /\ StatsFresh
    /\ \E p \in ReadableFiles, q \in ReadableFiles :
          /\ p.dir # q.dir
          /\ KeysOf(p) \cap KeysOf(q) # {}
          /\ stats.sources[p.dir].hashes > 0
          /\ stats.sources[q.dir].hashes > 0
          /\ stats.total_unique_hashes
                < stats.sources[p.dir].hashes + stats.sources[q.dir].hashes

\* C8: a file that cannot be read or parsed adds nothing to its partition's
\* file count, nothing to its hash count and nothing to the unique hashes.
C8_UnreadableFileSkipped ==
    StatsFresh =>
        \A d \in DOMAIN stats.sources :
            stats.sources[d].files =
                Cardinality({p \in ReadableFiles : p.dir = d})

---------------------------------------------------------------------------
(* The run as a whole. *)

\* the adapters entered so far in this invocation
Attempted == [i \in 1..Len(calls) |-> calls[i].adapter]

\* C5: no failure is fatal: in every invocation the six adapters are
\* entered in the fixed order, whatever failed before, and generate_stats
\* then runs, exactly once, after the last adapter.
C5_EveryAdapterThenStats ==
    /\ [](pc # "crashed")
    /\ [](Attempted = SubSeq(Order, 1, Len(calls)))
    /\ [](pc = (IF Len(calls) < Len(Order) THEN Order[Len(calls) + 1]
                ELSE IF statsRuns = 0 THEN "stats" ELSE "done"))
    /\ [](statsRuns = (IF pc = "done" THEN 1 ELSE 0))
    /\ <>(pc = "done" /\ Attempted = Order /\ statsRuns = 1)

\* an invocation that finished although one adapter raised inside its loop
\* and another had a transport, status or write failure
C5_Witness ==
    /\ pc = "done"
    /\ statsRuns = 1
    /\ \E i \in 1..Len(calls) : calls[i].raised /\ calls[i].extracted # EmptyDict
    /\ \E i \in 1..Len(calls) :
          \/ (~calls[i].raised /\ calls[i].saves = <<>> /\ calls[i].adapter # "blogs")
          \/ \E sv \in CallSaves(<<calls[i]>>) : sv.outcome # "ok"

\* the keys an adapter call handed to save_hash_data
Contributed(call) == DOMAIN call.saves[1].new.sha256_signatures

\* the files first created in this invocation, in directory d
CreatedNow(d) ==
    {sv.path : sv \in {x \in CallSaves(calls) :
                          x.path.dir = d /\ ~x.existed /\ x.outcome # "open_fails"}}

\* adapter i saved in the previous invocation and in this one, the same
\* day, with both writes done, and created its file the first time
TwoRuns(i) ==
    /\ history # <<>>
    /\ i <= Len(calls)
    /\ history[Len(history)].day = today
    /\ history[Len(history)].calls[i].saves # <<>>
    /\ calls[i].saves # <<>>
    /\ history[Len(history)].calls[i].saves[1].outcome = "ok"
    /\ ~history[Len(history)].calls[i].saves[1].existed
    /\ calls[i].saves[1].outcome = "ok"
    /\ Contributed(history[Len(history)].calls[i]) \cap Contributed(calls[i]) = {}

\* C6: two runs on one day, the same source contributing disjoint hash sets:
\* the source's dataset of that day holds exactly the union, in the one
\* file the first run created; the second save adds no file, so the
\* partition's file count grows by no file of this source.
C6_SameDayUnion ==
    \A i \in 1..Len(Order) :
        TwoRuns(i) =>
            LET first == history[Len(history)].calls[i].saves[1]
                second == calls[i].saves[1]
                held == fs[second.path].obj.sha256_signatures
            IN /\ second.path = first.path
               /\ second.existed
               /\ fs[second.path].kind = "object"
               /\ DOMAIN held = Contributed(history[Len(history)].calls[i])
                                   \cup Contributed(calls[i])
               /\ \A h \in DOMAIN first.new.sha256_signatures :
                     held[h] = first.new.sha256_signatures[h]
               /\ \A h \in DOMAIN second.new.sha256_signatures :
                     held[h] = second.new.sha256_signatures[h]
               /\ StatsFresh =>
                     /\ second.path \notin CreatedNow(second.path.dir)
                     /\ stats.sources[second.path.dir].files =
                           history[Len(history)].stats.sources[second.path.dir].files
                           + Cardinality(CreatedNow(second.path.dir))

\* both runs contributed a hash, and the second run is over
C6_Witness ==
    /\ StatsFresh
    /\ \E i \in 1..Len(Order) :
          /\ TwoRuns(i)
          /\ Contributed(history[Len(history)].calls[i]) # {}
          /\ Contributed(calls[i]) # {}
          /\ stats.sources[calls[i].saves[1].path.dir].files = 1
          /\ history[Len(history)].stats.sources[calls[i].saves[1].path.dir].files = 1

\* C7: an adapter that meets a malformed item keeps what it had parsed: the
\* Records extracted before the item are persisted to its partition.
C7_PartialExtractionKept ==
    \A i \in 1..Len(calls) :
        (calls[i].raised /\ calls[i].extracted # EmptyDict) =>
            /\ calls[i].saves # <<>>
            /\ DOMAIN calls[i].extracted \subseteq Contributed(calls[i])

\* C9: every persisted hash key is lower case.
C9_KeysLowerCase ==
    \A p \in ReadableFiles : \A h \in KeysOf(p) : h = Lower(h)

RecordFields == {"classification", "detection_rate", "first_seen",
                 "neartha_name", "additional_info", "file_type"}

\* C10: every Record an adapter produces has the six fields, and its
\* neartha_name is its classification with each space replaced by '.'.
C10_CanonicalName ==
    \A i \in 1..Len(calls) : \A h \in DOMAIN calls[i].extracted :
        /\ DOMAIN calls[i].extracted[h] = RecordFields
        /\ calls[i].extracted[h].neartha_name =
              Replace(calls[i].extracted[h].classification, " ", ".")

---------------------------------------------------------------------------
(* The source partitions against the daily partition. *)

\* the daily file of the run date
DailyPath == Path("daily", TODAY(today) \o <<".json">>)

\* the adapter calls of this invocation that reached their saves
Savers == {i \in 1..Len(calls) : calls[i].saves # <<>>}

\* no write of save_hash_data failed, and every file it found loaded
NoFileFailure ==
    \A sv \in CallSaves(calls) :
        sv.outcome = "ok" /\ (sv.existed => PriorLoads(sv))

\* the first adapter call of the run that handed hash h to save_hash_data
Earliest(h) ==
    CHOOSE i \in Savers :
        /\ h \in Contributed(calls[i])
        /\ \A j \in Savers : h \in Contributed(calls[j]) => i <= j

\* the Record mapping the daily file held before the run's first save to it
DailyBefore == PriorSignatures(calls[CHOOSE i \in Savers :
                                        \A j \in Savers : i <= j].saves[2])

\* the Record of hash h in the daily file of the run date
DailyRecord(h) == fs[DailyPath].obj.sha256_signatures[h]

\* the Record the adapter call i handed over for hash h
Reported(i, h) == calls[i].saves[1].new.sha256_signatures[h]

\* hash h was handed over by two adapter calls of this invocation
ReportedTwice(h) ==
    \E i \in Savers, j \in Savers :
        i # j /\ h \in Contributed(calls[i]) \cap Contributed(calls[j])

\* every adapter that saves makes two saves with the same data: its own
\* partition file, then the daily file of the run date
SavesSourceThenDaily ==
    \A i \in Savers :
        /\ Len(calls[i].saves) = 2
        /\ calls[i].saves[1].path.dir # "daily"
        /\ calls[i].saves[2].path = DailyPath
        /\ calls[i].saves[2].new = calls[i].saves[1].new

\* C11 as the spec states it: at the end of any run without a failed file
\* read or write, every key held in a source-partition file written in the
\* run is a key of the daily file, and a hash that two adapters of the run
\* report has in daily the Record of the adapter that ran earlier.
C11_AnyRunEarliestWins ==
    /\ SavesSourceThenDaily
    /\ (pc = "done" /\ NoFileFailure) =>
          \A i \in Savers :
              /\ {DailyPath, calls[i].saves[1].path} \subseteq DOMAIN fs
              /\ fs[DailyPath].kind = "object"
              /\ fs[calls[i].saves[1].path].kind = "object"
              /\ KeysOf(calls[i].saves[1].path) \subseteq KeysOf(DailyPath)
              /\ \A h \in Contributed(calls[i]) :
                    ReportedTwice(h) =>
                        DailyRecord(h) = Reported(Earliest(h), h)

\* C11: every adapter that saves writes its partition file and then the
\* daily file of the run date with the same data; at the end of a run
\* without a failed file read or write, every key an adapter of the run
\* handed over is a key of its partition file and of the daily file, and
\* its daily Record is the one the daily file held before the run, or,
\* for a key the daily file did not hold, the Record of the adapter of the
\* run that handed it over first.
C11_SourceKeysInDaily ==
    /\ SavesSourceThenDaily
    /\ (pc = "done" /\ NoFileFailure) =>
          \A i \in Savers :
              /\ {DailyPath, calls[i].saves[1].path} \subseteq DOMAIN fs
              /\ fs[DailyPath].kind = "object"
              /\ fs[calls[i].saves[1].path].kind = "object"
              /\ Contributed(calls[i]) \subseteq KeysOf(calls[i].saves[1].path)
              /\ Contributed(calls[i]) \subseteq KeysOf(DailyPath)
              /\ \A h \in Contributed(calls[i]) :
                    DailyRecord(h) =
                        IF h \in DOMAIN DailyBefore THEN DailyBefore[h]
                        ELSE Reported(Earliest(h), h)

\* a finished second run of the day without file failure: two adapters
\* reported a hash that the daily file held from the run before, with
\* Records that differ from it, and daily still holds the Record it had
C11_Witness ==
    /\ pc = "done"
    /\ history # <<>>
    /\ NoFileFailure
    /\ \E i \in Savers, j \in Savers :
          /\ i < j
          /\ \E h \in Contributed(calls[i]) \cap Contributed(calls[j]) :
                /\ h \in DOMAIN DailyBefore
                /\ Reported(i, h) # DailyBefore[h]
                /\ Reported(j, h) # DailyBefore[h]
                /\ DailyRecord(h) = DailyBefore[h]
                /\ h \in KeysOf(calls[j].saves[1].path)

===========================================================================
